---- MODULE Spec2Model ----
(***************************************************************************)
(* YumeChain: the plot store and its merge-save, the episode order used for *)
(* adjacency, the adjacency lookups, the context assembler, the parser of  *)
(* episode-selection expressions, the generate-plot and generate-episode   *)
(* commands of yumechain/cli.py and of main.py, the episode files and the  *)
(* read command of main.py with its Pelican server manager.                *)
(*                                                                         *)
(* Python strings are modelled as sequences of Unicode code points, so     *)
(* that string comparison, int() and str() are computed, not assumed.      *)
(* A Python dict is modelled as the sequence of its items() in insertion   *)
(* order: a sequence of <<key, value>> pairs with distinct keys.           *)
(***************************************************************************)
EXTENDS Integers, Sequences, FiniteSets, TLC

VARIABLES
    plot_file,   \* the plot document plot.json: its state and its content
    stories,     \* the episode files under stories/: file name -> content
    call,        \* the last operation called: arguments, locals, outcome
    command,     \* the generate-episode command: its options and its progress
    reader       \* the read command of main.py: its server manager and what
                 \* it has left on the machine

vars == <<plot_file, stories, call, command, reader>>

----------------------------------------------------------------------------
(* Bounds of the model *)

\* episodes per arc in a plot store
MaxEps == 2
\* the largest episode number the properties look for in a store
MaxEpisodeNumber == 10
\* the largest number written in a token of an episode-selection expression
MaxTokenValue == 3
\* tokens per episode-selection expression
MaxTokens == 2

----------------------------------------------------------------------------
(* Text *)

\* arc names: "A", "AB"
ArcA == <<65>>
ArcAB == <<65, 66>>

\* the arc names "第二編" and "第十編" as code points
ArcDaiNi == <<31532, 20108, 32232>>
ArcDaiJu == <<31532, 21313, 32232>>

\* episode keys of the persisted form: "1", "2", "10" and an unparsable "x"
Key1 == <<49>>
Key2 == <<50>>
Key10 == <<49, 48>>
KeyX == <<120>>

\* the characters str.strip() and int() treat as blanks
IsSpace(c) ==
    c \in {9, 10, 11, 12, 13, 28, 29, 30, 31, 32, 133, 160, 12288}

\* "0".."9"
IsDigit(c) == c \in 48..57

RECURSIVE AllDigits(_)
AllDigits(s) ==
    IF s = <<>> THEN TRUE
    ELSE IsDigit(Head(s)) /\ AllDigits(Tail(s))

RECURSIVE DigitsValue(_, _)
\* value of the decimal digits s, accumulated left to right
DigitsValue(s, acc) ==
    IF s = <<>> THEN acc
    ELSE DigitsValue(Tail(s), acc * 10 + (Head(s) - 48))

RECURSIVE LStrip(_)
LStrip(s) ==
    IF s # <<>> /\ IsSpace(Head(s)) THEN LStrip(Tail(s)) ELSE s

RECURSIVE RStrip(_)
RStrip(s) ==
    IF s # <<>> /\ IsSpace(s[Len(s)])
    THEN RStrip(SubSeq(s, 1, Len(s) - 1)) ELSE s

\* s.strip()
Strip(s) == RStrip(LStrip(s))

\* int(s) of a string: surrounding blanks dropped, an optional sign ("+" 43,
\* "-" 45), then one or more decimal digits; anything else raises
\* ValueError. [ok |-> FALSE] stands for the ValueError.
ParseInt(s) ==
    LET t == Strip(s)
        signed == t # <<>> /\ Head(t) \in {43, 45}
        d == IF signed THEN Tail(t) ELSE t
    IN  IF d = <<>> \/ ~AllDigits(d)
        THEN [ok |-> FALSE, val |-> 0]
        ELSE [ok |-> TRUE,
              val |-> IF signed /\ Head(t) = 45
                      THEN 0 - DigitsValue(d, 0) ELSE DigitsValue(d, 0)]

RECURSIVE NatToStr(_)
NatToStr(n) ==
    IF n < 10 THEN <<48 + n>>
    ELSE NatToStr(n \div 10) \o <<48 + (n % 10)>>

\* str(n) of an int
ToStr(n) == IF n < 0 THEN <<45>> \o NatToStr(0 - n) ELSE NatToStr(n)

RECURSIVE StrLess(_, _)
\* a < b for Python strings: lexicographic by code point, a proper prefix first
StrLess(a, b) ==
    IF b = <<>> THEN FALSE
    ELSE IF a = <<>> THEN TRUE
    ELSE IF Head(a) # Head(b) THEN Head(a) < Head(b)
    ELSE StrLess(Tail(a), Tail(b))

----------------------------------------------------------------------------
(* dict *)

DictKeys(d) == {d[i][1] : i \in 1..Len(d)}

\* d[k], for k in d
DictAt(d, k) == d[CHOOSE i \in 1..Len(d) : d[i][1] = k][2]

\* d.get(k, default)
DictGet(d, k, default) == IF k \in DictKeys(d) THEN DictAt(d, k) ELSE default

\* d[k] = v: the value of an existing key replaced in place, a new key
\* appended
DictSet(d, k, v) ==
    IF k \in DictKeys(d)
    THEN [i \in 1..Len(d) |-> IF d[i][1] = k THEN <<k, v>> ELSE d[i]]
    ELSE Append(d, <<k, v>>)

RECURSIVE DictUpdateKeep(_, _)
\* DictUpdate that keeps the value of a key the dict already has
DictUpdateKeep(d, e) ==
    IF e = <<>> THEN d
    ELSE DictUpdateKeep(IF Head(e)[1] \in DictKeys(d) THEN d
                        ELSE DictSet(d, Head(e)[1], Head(e)[2]), Tail(e))

RECURSIVE DictUpdate(_, _)
\* d.update(e): d[k] = v for every item (k, v) of e, in the order of e
DictUpdate(d, e) ==
    IF e = <<>> THEN d
    ELSE DictUpdate(DictSet(d, Head(e)[1], Head(e)[2]), Tail(e))

----------------------------------------------------------------------------
(* The episode order *)

\* KeyLess with the episode numbers compared as text, as the keys are stored
KeyLessText(x, y) ==
    \/ StrLess(x[1], y[1])
    \/ x[1] = y[1] /\ StrLess(ToStr(x[2]), ToStr(y[2]))

\* KeyLess with the key (x[1], x[0]): the episode number before the arc name
KeyLessEpisodeFirst(x, y) ==
    \/ x[2] < y[2]
    \/ x[2] = y[2] /\ StrLess(x[1], y[1])

\* the sort key with the arc names compared from the greater code point down
KeyLessArcDescending(x, y) ==
    \/ StrLess(y[1], x[1])
    \/ x[1] = y[1] /\ x[2] < y[2]

\* the sort key (x[0], x[1]) compared as Python compares tuples
KeyLess(x, y) ==
    \/ StrLess(x[1], y[1])
    \/ x[1] = y[1] /\ x[2] < y[2]

RECURSIVE InsertByKey(_, _)
\* x placed after every element whose key is not greater: the sort is stable
InsertByKey(x, s) ==
    IF s = <<>> THEN <<x>>
    ELSE IF KeyLess(x, Head(s)) THEN <<x>> \o s
    ELSE <<Head(s)>> \o InsertByKey(x, Tail(s))

\* SortByKey with the sort left out: the insertion order of the store
SortLeftOut(s) == s

RECURSIVE SortByKey(_)
\* list.sort(key=lambda x: (x[0], x[1]))
SortByKey(s) ==
    IF s = <<>> THEN <<>>
    ELSE InsertByKey(s[Len(s)], SortByKey(SubSeq(s, 1, Len(s) - 1)))

RECURSIVE FlattenArcBreak(_, _)
\* FlattenArc with break for continue: the arc's loop ends at the first key
\* int() rejects
FlattenArcBreak(arc_name, episodes) ==
    IF episodes = <<>> THEN <<>>
    ELSE LET p == ParseInt(Head(episodes)[1])
         IN  IF p.ok
             THEN <<(<<arc_name, p.val>>)>> \o FlattenArcBreak(arc_name, Tail(episodes))
             ELSE <<>>

RECURSIVE FlattenArc(_, _)
\* the inner loop: one (arc_name, ep_num) per key int() accepts, others skipped
FlattenArc(arc_name, episodes) ==
    IF episodes = <<>> THEN <<>>
    ELSE LET p == ParseInt(Head(episodes)[1])
         IN  (IF p.ok THEN <<(<<arc_name, p.val>>)>> ELSE <<>>)
             \o FlattenArc(arc_name, Tail(episodes))

RECURSIVE Flatten(_)
\* the outer loop over plot_data.items()
Flatten(pd) ==
    IF pd = <<>> THEN <<>>
    ELSE FlattenArc(Head(pd)[1], Head(pd)[2]) \o Flatten(Tail(pd))

\* all_episodes after the sort
AllEpisodes(pd) == SortByKey(Flatten(pd))

\* the value Python's None is modelled by, for an index
None == -1

\* FindIndex matching on the episode number alone
FindIndexByEpisode(all, arc, episode) ==
    LET hits == {i \in 1..Len(all) : all[i][2] = episode}
    IN  IF hits = {} THEN None
        ELSE (CHOOSE i \in hits : \A j \in hits : i <= j) - 1

\* FindIndex with current_index starting at 0 instead of None
FindIndexFromZero(all, arc, episode) ==
    LET hits == {i \in 1..Len(all) : all[i][1] = arc /\ all[i][2] = episode}
    IN  IF hits = {} THEN 0
        ELSE (CHOOSE i \in hits : \A j \in hits : i <= j) - 1

\* the linear scan for the current episode: the 0-based index of the first
\* match, None when no element matches
FindIndex(all, arc, episode) ==
    LET hits == {i \in 1..Len(all) : all[i][1] = arc /\ all[i][2] = episode}
    IN  IF hits = {} THEN None
        ELSE (CHOOSE i \in hits : \A j \in hits : i <= j) - 1

----------------------------------------------------------------------------
(* The adjacency lookup over plot texts *)

RECURSIVE FlattenArcPlots(_, _)
\* as FlattenArc, each element carrying its plot text: (arc, episode_int, text)
FlattenArcPlots(arc_name, episodes) ==
    IF episodes = <<>> THEN <<>>
    ELSE LET p == ParseInt(Head(episodes)[1])
         IN  (IF p.ok THEN <<(<<arc_name, p.val, Head(episodes)[2]>>)>> ELSE <<>>)
             \o FlattenArcPlots(arc_name, Tail(episodes))

RECURSIVE FlattenPlots(_)
FlattenPlots(pd) ==
    IF pd = <<>> THEN <<>>
    ELSE FlattenArcPlots(Head(pd)[1], Head(pd)[2]) \o FlattenPlots(Tail(pd))

\* the global order: the triples sorted by (arc, episode_int)
GlobalOrder(pd) == SortByKey(FlattenPlots(pd))

\* _get_adjacent_episode_plot_by_file_order(plot_data, arc, episode, direction)
AdjacentEpisodePlot(pd, arc, episode, direction) ==
    LET all == GlobalOrder(pd)
        index == FindIndex(all, arc, episode)
    IN  IF index = None THEN <<>>
        ELSE IF direction = "previous"
             THEN (IF index > 0 THEN all[index][3] ELSE <<>>)
             ELSE (IF index + 1 < Len(all) THEN all[index + 2][3] ELSE <<>>)

----------------------------------------------------------------------------
(* Episode files *)

\* f"{episode:02d}"
Format02d(n) ==
    IF n >= 0 /\ n < 10 THEN <<48>> \o NatToStr(n) ELSE ToStr(n)

\* f"{arc}_{episode:02d}.md", the name of the file under stories/
EpisodeFileName(arc, episode) ==
    arc \o <<95>> \o Format02d(episode) \o <<46, 109, 100>>

\* "---"
Dashes == <<45, 45, 45>>

StartsWith(s, prefix) ==
    Len(s) >= Len(prefix) /\ SubSeq(s, 1, Len(prefix)) = prefix

RECURSIVE SplitLines(_)
\* s.split('\n')
SplitLines(s) ==
    IF 10 \notin {s[i] : i \in 1..Len(s)} THEN <<s>>
    ELSE LET k == CHOOSE i \in 1..Len(s) :
                      s[i] = 10 /\ \A j \in 1..(i - 1) : s[j] # 10
         IN  <<SubSeq(s, 1, k - 1)>> \o SplitLines(SubSeq(s, k + 1, Len(s)))

RECURSIVE JoinLines(_)
\* '\n'.join(lines)
JoinLines(lines) ==
    IF lines = <<>> THEN <<>>
    ELSE IF Len(lines) = 1 THEN lines[1]
    ELSE lines[1] \o <<10>> \o JoinLines(Tail(lines))

RECURSIVE FirstHeading(_)
\* the text of the first line that starts with "# ", stripped; "" if none
FirstHeading(lines) ==
    IF lines = <<>> THEN <<>>
    ELSE IF StartsWith(Head(lines), <<35, 32>>)
    THEN Strip(SubSeq(Head(lines), 3, Len(Head(lines))))
    ELSE FirstHeading(Tail(lines))

\* the chapter title generate_yaml_frontmatter takes from the content: its
\* first heading, else f"第{episode}話"
ChapterTitle(episode, content) ==
    LET heading == FirstHeading(SplitLines(Strip(content)))
    IN  IF heading # <<>> THEN heading
        ELSE <<31532>> \o ToStr(episode) \o <<35441>>

\* the text a file holds after save_episode: the front matter from "---" to
\* "---" and a blank line, then the content. Of the metadata lines between
\* the markers the title line, which quotes the chapter title and the title
\* "T" of the novel, and the chapter line are kept; the other lines (author,
\* date, lang, description, series, volume) are one key: value line each.
EpisodeFileText(episode, content) ==
    Dashes \o <<10>>
    \o <<116, 105, 116, 108, 101, 58, 32, 34>> \o ChapterTitle(episode, content)
    \o <<32, 84, 34, 10>>
    \o <<99, 104, 97, 112, 116, 101, 114, 58, 32, 34>> \o ToStr(episode) \o <<34, 10>>
    \o Dashes \o <<10, 10>>
    \o content

RECURSIVE UniversalNewlines(_)
\* the text read_text() returns for the text in the file: "\r\n" and "\r"
\* are read as "\n"
UniversalNewlines(s) ==
    IF s = <<>> THEN <<>>
    ELSE IF Head(s) = 13
    THEN <<10>> \o UniversalNewlines(IF Len(s) >= 2 /\ s[2] = 10
                                      THEN SubSeq(s, 3, Len(s)) ELSE Tail(s))
    ELSE <<Head(s)>> \o UniversalNewlines(Tail(s))

\* read_episode(title, arc, episode)
ReadEpisode(files, arc, episode) ==
    LET name == EpisodeFileName(arc, episode)
    IN  IF name \notin DOMAIN files THEN <<>>
        ELSE LET content == UniversalNewlines(files[name])
                 lines == SplitLines(content)
                 marks == {i \in 2..Len(lines) : Strip(lines[i]) = Dashes}
                 \* 0-based index of the closing marker, -1 when there is none
                 end_marker == IF marks = {} THEN -1
                               ELSE (CHOOSE i \in marks : \A j \in marks : i <= j) - 1
             IN  IF StartsWith(content, Dashes) /\ end_marker > 0
                 THEN Strip(JoinLines(SubSeq(lines, end_marker + 2, Len(lines))))
                 ELSE Strip(content)

----------------------------------------------------------------------------
(* The episode-selection expression *)

\* the characters of a string
Chars(s) == {s[i] : i \in 1..Len(s)}

\* the first place of the character c in s, for c in s
FirstPlace(s, c) == CHOOSE i \in 1..Len(s) : s[i] = c /\ \A j \in 1..(i - 1) : s[j] # c

RECURSIVE Split(_, _)
\* s.split(c) for a one-character separator c
Split(s, c) ==
    IF c \notin Chars(s) THEN <<s>>
    ELSE <<SubSeq(s, 1, FirstPlace(s, c) - 1)>>
         \o Split(SubSeq(s, FirstPlace(s, c) + 1, Len(s)), c)

\* s.split(c, 1) for c in s: the text before the first c and the text after it
SplitOnce(s, c) ==
    <<SubSeq(s, 1, FirstPlace(s, c) - 1), SubSeq(s, FirstPlace(s, c) + 1, Len(s))>>

\* Sorted with the list in descending order
SortedDescending(S) ==
    LET RECURSIVE down(_)
        down(T) == IF T = {} THEN <<>>
                   ELSE LET m == CHOOSE x \in T : \A y \in T : x >= y
                        IN  <<m>> \o down(T \ {m})
    IN  down(S)

\* sorted(list(S)) of a set of integers
Sorted(S) ==
    LET RECURSIVE up(_)
        up(T) == IF T = {} THEN <<>>
                 ELSE LET m == CHOOSE x \in T : \A y \in T : x <= y
                      IN  <<m>> \o up(T \ {m})
    IN  up(S)

\* the outcome of one token: the numbers it adds, or the ValueError raised
Adds(S) == [raised |-> "none", error |-> "", values |-> S]
Fails(error) == [raised |-> "ValueError", error |-> error, values |-> {}]

\* ParseRange with the numbers outside [1, max_episode] left out, not refused
ParseRangeClipped(part, max_episode) ==
    LET halves == SplitOnce(part, 45)
        start == ParseInt(Strip(halves[1]))
        end == ParseInt(Strip(halves[2]))
    IN  IF ~start.ok \/ ~end.ok THEN Fails("invalid range format")
        ELSE IF start.val > end.val THEN Fails("start after end")
        ELSE Adds({ep \in start.val..end.val : 1 <= ep /\ ep <= max_episode})

\* the branch of a token that holds "-": start-end
ParseRange(part, max_episode) ==
    LET halves == SplitOnce(part, 45)
        start == ParseInt(Strip(halves[1]))
        end == ParseInt(Strip(halves[2]))
    IN  IF ~start.ok \/ ~end.ok THEN Fails("invalid range format")
        ELSE IF start.val > end.val THEN Fails("start after end")
        ELSE IF \E ep \in start.val..end.val : ~(1 <= ep /\ ep <= max_episode)
        THEN Fails("out of range")
        ELSE Adds(start.val..end.val)

\* ParseSingle with the upper limit left unchecked
ParseSingleNoUpper(part, max_episode) ==
    LET ep == ParseInt(part)
    IN  IF ~ep.ok THEN Fails("invalid number")
        ELSE IF 1 <= ep.val THEN Adds({ep.val})
        ELSE Fails("out of range")

\* the branch of a token without "-": one number
ParseSingle(part, max_episode) ==
    LET ep == ParseInt(part)
    IN  IF ~ep.ok THEN Fails("invalid number")
        ELSE IF 1 <= ep.val /\ ep.val <= max_episode THEN Adds({ep.val})
        ELSE Fails("out of range")

\* ParsePart with a blank token passed over
ParsePartSkipBlank(part, max_episode) ==
    IF Strip(part) = <<>> THEN Adds({})
    ELSE IF 45 \in Chars(Strip(part)) THEN ParseRange(Strip(part), max_episode)
    ELSE ParseSingle(Strip(part), max_episode)

\* the body of the loop over the tokens: part.strip(), then one of the branches
ParsePart(part, max_episode) ==
    IF 45 \in Chars(Strip(part)) THEN ParseRange(Strip(part), max_episode)
    ELSE ParseSingle(Strip(part), max_episode)

RECURSIVE ParseParts(_, _, _)
\* the loop over the tokens: episodes holds what the tokens before added; the
\* first token that raises ends the call and episodes is dropped
ParseParts(parts, max_episode, episodes) ==
    IF parts = <<>>
    THEN [raised |-> "none", error |-> "", value |-> Sorted(episodes)]
    ELSE LET r == ParsePart(Head(parts), max_episode)
         IN  IF r.raised # "none"
             THEN [raised |-> r.raised, error |-> r.error, value |-> <<>>]
             ELSE ParseParts(Tail(parts), max_episode, episodes \cup r.values)

\* parse_episode_numbers(episodes_str, max_episode)
ParseEpisodeNumbers(episodes_str, max_episode) ==
    ParseParts(Split(episodes_str, 44), max_episode, {})

----------------------------------------------------------------------------
(* The plot document *)

\* read_plot(title): the store, or the exception raised
ReadPlot(pf) ==
    IF pf.state = "missing" THEN [raised |-> "FileNotFoundError", value |-> <<>>]
    ELSE IF pf.state = "malformed" THEN [raised |-> "JSONDecodeError", value |-> <<>>]
    ELSE [raised |-> "none", value |-> pf.data]

----------------------------------------------------------------------------
(* The inputs of the model *)

\* the arcs a store may hold, and the arcs asked for: a store that holds only
\* one of them is asked for the other too
StoreArcs == {ArcA, ArcAB}
QueryArcs == {ArcA, ArcAB}

\* the episode keys a store may hold, and the episode numbers asked for: an
\* arc that holds only one of them is asked for the other too
StoreKeys == {Key2, Key10, KeyX}
QueryEpisodes == {2, 10}

\* the plot text of an entry: empty, or a text naming the entry ("A/2")
PlotTexts(arc, key) == {<<>>, arc \o <<47>> \o key}

\* the sequences without repetition of at most n elements of S
DistinctSeqs(S, n) ==
    {q \in UNION {[1..k -> S] : k \in 0..n} :
        \A i, j \in 1..Len(q) : i # j => q[i] # q[j]}

RECURSIVE MapsOver(_, _)
\* the episode maps of an arc that list the keys ks in this order
MapsOver(arc, ks) ==
    IF ks = <<>> THEN {<<>>}
    ELSE {<<(<<Head(ks), t>>)>> \o rest :
             t \in PlotTexts(arc, Head(ks)), rest \in MapsOver(arc, Tail(ks))}

\* the episode maps of an arc: at most MaxEps keys, in any insertion order
EpisodeMaps(arc) ==
    UNION {MapsOver(arc, ks) : ks \in DistinctSeqs(StoreKeys, MaxEps)}

RECURSIVE StoresOver(_)
\* the plot stores that list the arcs as in this order
StoresOver(as) ==
    IF as = <<>> THEN {<<>>}
    ELSE {<<(<<Head(as), m>>)>> \o rest :
             m \in EpisodeMaps(Head(as)), rest \in StoresOver(Tail(as))}

\* the plot stores: any of the arcs, in any insertion order
PlotStores ==
    UNION {StoresOver(as) : as \in DistinctSeqs(StoreArcs, Cardinality(StoreArcs))}

\* the stores a plot generation saves and the stores it saves onto: any of
\* the arcs, each with at most MaxEps of the keys "2" and "10"
SavedMaps(arc) ==
    UNION {MapsOver(arc, ks) : ks \in DistinctSeqs({Key2, Key10}, MaxEps)}

RECURSIVE SavedOver(_)
SavedOver(as) ==
    IF as = <<>> THEN {<<>>}
    ELSE {<<(<<Head(as), m>>)>> \o rest :
             m \in SavedMaps(Head(as)), rest \in SavedOver(Tail(as))}

SavedStores ==
    UNION {SavedOver(as) : as \in DistinctSeqs(StoreArcs, Cardinality(StoreArcs))}

\* the stores the generate-episode command runs on: empty, or arc "A" with at
\* most MaxEps of the keys "1", "2" and "x", so that an episode number within
\* 1..len(plot_data[arc]) may be no key of the arc
CommandStores ==
    {<<>>} \cup
    {<<(<<ArcA, m>>)>> :
        m \in UNION {MapsOver(ArcA, ks) : ks \in DistinctSeqs({Key1, Key2, KeyX}, MaxEps)}}

\* the episode maps a plot generation returns for an arc: the keys "1", or
\* "1" and "2", as the prompt asks for them
GeneratedMaps(arc) == MapsOver(arc, <<Key1>>) \cup MapsOver(arc, <<Key1, Key2>>)

RECURSIVE GeneratedOver(_)
GeneratedOver(as) ==
    IF as = <<>> THEN {<<>>}
    ELSE {<<(<<Head(as), m>>)>> \o rest :
             m \in GeneratedMaps(Head(as)), rest \in GeneratedOver(Tail(as))}

\* the stores a plot generation returns, the response being parsed as it
\* comes: any of these arcs, in any order
GeneratedStores(arcs) ==
    UNION {GeneratedOver(as) : as \in DistinctSeqs(arcs, Cardinality(arcs))}

\* the plot documents a generate-plot command finds: none, or a document of
\* such a store, well formed or with a slip of syntax in it
PlotDocuments(arcs) ==
    {[state |-> "missing", data |-> <<>>]}
    \cup {[state |-> st, data |-> pd] :
             st \in {"ok", "malformed"}, pd \in GeneratedStores(arcs)}

\* the episode files found under stories/ when the command starts: files of
\* arc "A" written by an earlier run, holding the text "o"
Shelf(S) ==
    [f \in {EpisodeFileName(ArcA, n) : n \in S} |->
        EpisodeFileText(CHOOSE n \in S : EpisodeFileName(ArcA, n) = f, <<111>>)]

Shelves == {Shelf(S) : S \in SUBSET {1, 2}}

\* the episode texts the generation call may return: "e", " e\n---\nf\n"
EpisodeContents == {<<101>>, <<32, 101, 10, 45, 45, 45, 10, 102, 10>>}

\* the contents saved and read back: those, a text with a heading and a
\* "---" line, "# h\n---\nb", and texts with carriage returns, "a\r\nb" and
\* "# h\r---\rx"
SavedContents ==
    EpisodeContents
    \cup {<<35, 32, 104, 10, 45, 45, 45, 10, 98>>,
          <<97, 13, 10, 98>>,
          <<35, 32, 104, 13, 45, 45, 45, 13, 120>>}

\* a token of an episode-selection expression as the user composes it: its
\* text, and what it is: one integer (start = end), a range start-end of two
\* integers, a word that is no integer, or a broken range
Token(kind, start, end, text) ==
    [kind |-> kind, start |-> start, end |-> end, text |-> text]

\* "0", "1", ... and a padded " 2 " and a negative "-2"
SingleTokens ==
    {Token("single", n, n, ToStr(n)) : n \in 0..MaxTokenValue}
    \cup {Token("single", 2, 2, <<32, 50, 32>>), Token("single", -2, -2, <<45, 50>>)}

\* "0-0", "0-1", ..., "3-3" and a padded " 1 - 2 "
RangeTokens ==
    {Token("range", a, b, ToStr(a) \o <<45>> \o ToStr(b)) : a, b \in 0..MaxTokenValue}
    \cup {Token("range", 1, 2, <<32, 49, 32, 45, 32, 50, 32>>)}

\* "", "x" and "1-x", "1-2-2"
OtherTokens ==
    {Token("word", 0, 0, t) : t \in {<<>>, <<120>>}}
    \cup {Token("broken", 0, 0, t) : t \in {<<49, 45, 120>>, <<49, 45, 50, 45, 50>>}}

Tokens == SingleTokens \cup RangeTokens \cup OtherTokens

\* the expressions: 1 to MaxTokens tokens; the empty expression is the one
\* token ""
Expressions == UNION {[1..k -> Tokens] : k \in 1..MaxTokens}

RECURSIVE Join(_, _)
\* c.join(texts)
Join(texts, c) ==
    IF texts = <<>> THEN <<>>
    ELSE IF Len(texts) = 1 THEN texts[1]
    ELSE texts[1] \o <<c>> \o Join(Tail(texts), c)

\* the text of an expression: its tokens with "," between them
ExpressionText(tokens) == Join([i \in 1..Len(tokens) |-> tokens[i].text], 44)

\* max_episode = len(plot_data[arc]): the number of keys of an arc
MaxEpisodes == 0..MaxEps

\* the values of --episodes: "1-2", "2,1", "2", "1" and "0"
CommandExpressions ==
    {<<Token("range", 1, 2, <<49, 45, 50>>)>>,
     <<Token("single", 2, 2, Key2), Token("single", 1, 1, Key1)>>,
     <<Token("single", 2, 2, Key2)>>,
     <<Token("single", 1, 1, Key1)>>,
     <<Token("single", 0, 0, <<48>>)>>}

----------------------------------------------------------------------------
(* Operations *)

Idle ==
    [op |-> "none", arc |-> <<>>, episode |-> 0, direction |-> "",
     all_episodes |-> <<>>, current_index |-> None,
     current_plot |-> <<>>, previous_plot |-> <<>>, next_plot |-> <<>>,
     prompt |-> "", cached |-> FALSE, api_calls |-> 0, result |-> <<>>,
     raised |-> "none",
     tokens |-> <<>>, episodes_str |-> <<>>, max_episode |-> 0, error |-> "",
     plot_data |-> <<>>, merge |-> FALSE,
     program |-> "", arc_given |-> FALSE, dry_run |-> FALSE, outcome |-> "",
     content |-> <<>>]

\* no generate-episode command has been started
NoCommand ==
    [program |-> "", pc |-> "idle", arc |-> <<>>, tokens |-> <<>>,
     dry_run |-> FALSE, force |-> FALSE, episode_list |-> <<>>, position |-> 0,
     success_count |-> 0, error_count |-> 0, log |-> <<>>, outcome |-> "",
     reported |-> FALSE, stories_before |-> <<>>]

\* no read command has been started: no manager, nothing left on the machine
NoReader ==
    [pc |-> "idle", interactive |-> FALSE, port |-> 0, auto_open |-> FALSE,
     temp_dir |-> None, server_process |-> None,
     dirs |-> {}, processes |-> {}, made |-> 0, started |-> 0,
     cleaned |-> FALSE, outcome |-> ""]

Init ==
    /\ plot_file \in
          {[state |-> "missing", data |-> <<>>], [state |-> "malformed", data |-> <<>>]}
          \cup {[state |-> "ok", data |-> pd] : pd \in PlotStores}
    /\ stories = <<>>
    /\ call = Idle
    /\ command = NoCommand
    /\ reader = NoReader

\* FileManager.get_previous_episode_content(title, arc, episode, plot_data);
\* passed: the caller hands in the store it has read, else plot_data is None
GetPreviousEpisodeContent(arc, episode, passed) ==
    /\ call.op = "none"
    /\ passed => plot_file.state = "ok"
    /\ LET rp == ReadPlot(plot_file)
           base == [Idle EXCEPT !.op = "get_previous_episode_content",
                                !.arc = arc, !.episode = episode,
                                !.direction = "previous"]
       IN  IF ~passed /\ rp.raised = "FileNotFoundError"
           THEN call' = base
           ELSE IF ~passed /\ rp.raised # "none"
           THEN call' = [base EXCEPT !.raised = rp.raised]
           ELSE LET all == AllEpisodes(rp.value)
                    index == FindIndex(all, arc, episode)
                IN  call' = [base EXCEPT
                        !.all_episodes = all,
                        !.current_index = index,
                        !.result = IF index = None \/ index = 0 THEN <<>>
                                   ELSE ReadEpisode(stories, all[index][1], all[index][2])]
    /\ UNCHANGED <<plot_file, stories, command, reader>>

\* LLMClient._get_adjacent_episode_plot_by_file_order(plot_data, arc, episode,
\* direction) on the store the caller has read
GetAdjacentEpisodePlot(arc, episode, direction) ==
    /\ call.op = "none"
    /\ plot_file.state = "ok"
    /\ LET all == GlobalOrder(plot_file.data)
       IN  call' = [Idle EXCEPT
               !.op = "get_adjacent_episode_plot",
               !.arc = arc, !.episode = episode, !.direction = direction,
               !.all_episodes = all,
               !.current_index = FindIndex(all, arc, episode),
               !.result = AdjacentEpisodePlot(plot_file.data, arc, episode, direction)]
    /\ UNCHANGED <<plot_file, stories, command, reader>>

\* PromptVariant choosing the adjacency prompt only when both neighbours exist
PromptVariantBoth(previous_plot, next_plot, cached) ==
    IF cached
    THEN (IF previous_plot # <<>> /\ next_plot # <<>>
          THEN "cached_with_context" ELSE "cached_plain")
    ELSE (IF previous_plot # <<>> /\ next_plot # <<>>
          THEN "with_context" ELSE "plain")

\* the prompt chosen from the neighbours found; cached: context caching is
\* enabled and the provider supports it
PromptVariant(previous_plot, next_plot, cached) ==
    IF cached
    THEN (IF previous_plot # <<>> \/ next_plot # <<>>
          THEN "cached_with_context" ELSE "cached_plain")
    ELSE (IF previous_plot # <<>> \/ next_plot # <<>>
          THEN "with_context" ELSE "plain")

\* current_plot = plot_data.get(arc, {}).get(str(episode), "")
CurrentPlot(pd, arc, episode) ==
    DictGet(DictGet(pd, arc, <<>>), ToStr(episode), <<>>)

\* LLMClient.generate_episode_with_context(setting_content, arc, episode,
\* plot_data) on the store the caller has read; generated: the text the
\* generation call returns, <<>> standing for its failure
GenerateEpisodeWithContext(arc, episode, cached, llm_ok, generated) ==
    /\ call.op = "none"
    /\ plot_file.state = "ok"
    /\ LET pd == plot_file.data
           current_plot == CurrentPlot(pd, arc, episode)
           previous_plot == AdjacentEpisodePlot(pd, arc, episode, "previous")
           next_plot == AdjacentEpisodePlot(pd, arc, episode, "next")
           base == [Idle EXCEPT !.op = "generate_episode_with_context",
                                !.arc = arc, !.episode = episode,
                                !.current_plot = current_plot]
       IN  IF current_plot = <<>>
           THEN call' = [base EXCEPT !.raised = "ValueError"]
           ELSE call' = [base EXCEPT
                   !.previous_plot = previous_plot,
                   !.next_plot = next_plot,
                   !.prompt = PromptVariant(previous_plot, next_plot, cached),
                   !.cached = cached,
                   !.api_calls = 1,
                   !.result = IF llm_ok THEN generated ELSE <<>>,
                   !.raised = IF llm_ok THEN "none" ELSE "Exception"]
    /\ UNCHANGED <<plot_file, stories, command, reader>>

\* FileManager.get_episode_plot(title, arc, episode)
GetEpisodePlot(arc, episode) ==
    /\ call.op = "none"
    /\ LET rp == ReadPlot(plot_file)
           base == [Idle EXCEPT !.op = "get_episode_plot",
                                !.arc = arc, !.episode = episode]
       IN  IF rp.raised # "none"
           THEN call' = [base EXCEPT !.raised = rp.raised]
           ELSE IF arc \notin DictKeys(rp.value)
           THEN call' = [base EXCEPT !.raised = "ValueError"]
           ELSE IF ToStr(episode) \notin DictKeys(DictAt(rp.value, arc))
           THEN call' = [base EXCEPT !.raised = "ValueError"]
           ELSE call' = [base EXCEPT
                   !.result = DictAt(DictAt(rp.value, arc), ToStr(episode))]
    /\ UNCHANGED <<plot_file, stories, command, reader>>

\* the files after episode_file.write_text(full_content)
WriteEpisode(files, arc, episode, content) ==
    [n \in DOMAIN files \cup {EpisodeFileName(arc, episode)} |->
        IF n = EpisodeFileName(arc, episode) THEN EpisodeFileText(episode, content)
        ELSE files[n]]

\* FileManager.save_episode(title, arc, episode, content)
SaveEpisode(arc, episode, content) ==
    /\ call.op = "none"
    /\ stories' = WriteEpisode(stories, arc, episode, content)
    /\ call' = [Idle EXCEPT !.op = "save_episode", !.arc = arc, !.episode = episode,
                            !.content = content]
    /\ UNCHANGED <<plot_file, command, reader>>

\* FileManager.read_episode(title, arc, episode)
ReadEpisodeCall(arc, episode) ==
    /\ call.op = "none"
    /\ call' = [Idle EXCEPT !.op = "read_episode", !.arc = arc, !.episode = episode,
                            !.result = ReadEpisode(stories, arc, episode)]
    /\ UNCHANGED <<plot_file, stories, command, reader>>

\* parse_episode_numbers(episodes_str, max_episode) on the text of tokens
ParseEpisodeNumbersCall(tokens, max_episode) ==
    /\ call.op = "none"
    /\ LET r == ParseEpisodeNumbers(ExpressionText(tokens), max_episode)
       IN  call' = [Idle EXCEPT
               !.op = "parse_episode_numbers",
               !.tokens = tokens,
               !.episodes_str = ExpressionText(tokens),
               !.max_episode = max_episode,
               !.result = r.value,
               !.raised = r.raised,
               !.error = r.error]
    /\ UNCHANGED <<plot_file, stories, command, reader>>

\* the plot document FileManager.save_plot(title, plot_data, merge) leaves in
\* place of pf: with merge and a document in place the document is read and
\* updated, and a failure of that is caught and warned of; then the data are
\* written
WritePlot(pf, plot_data, merge) ==
    LET rp == ReadPlot(pf)
        written == IF merge /\ pf.state # "missing" /\ rp.raised = "none"
                   THEN DictUpdate(rp.value, plot_data)
                   ELSE plot_data
    IN  [state |-> "ok", data |-> written]

\* FileManager.save_plot(title, plot_data, merge)
SavePlot(plot_data, merge) ==
    /\ call.op = "none"
    /\ plot_file' = WritePlot(plot_file, plot_data, merge)
    /\ call' = [Idle EXCEPT !.op = "save_plot", !.plot_data = plot_data,
                            !.merge = merge]
    /\ UNCHANGED <<stories, command, reader>>

\* the generate-plot command goes on to the generation call
CallsLLMAlways(read_ok, dry_run) == read_ok

\* the generate-plot command goes on to the generation call: the setting was
\* read and the command is no dry run
CallsLLM(read_ok, dry_run) == read_ok /\ ~dry_run

\* the plot document the generate-plot command of yumechain/cli.py saves:
\* with --arc the generated episode map is put under the arc into the
\* document read, or into an empty store when reading it raises anything,
\* and the whole is written; without --arc the generated store is written
CliPlotSaved(pf, arc_given, arc, response) ==
    LET rp == ReadPlot(pf)
        existing_plot == IF rp.raised = "none" THEN rp.value ELSE <<>>
    IN  IF arc_given
        THEN WritePlot(pf, DictSet(existing_plot, arc, response), FALSE)
        ELSE WritePlot(pf, response, FALSE)

\* the plot document the generate-plot command of main.py saves: the parsed
\* response as it is, merged into the document when --arc was given
MainPlotSaved(pf, arc_given, response) == WritePlot(pf, response, arc_given)

\* the generate-plot command of either program; setting_ok: setting.md is
\* there (main.py writes the template first, so its read does not fail);
\* llm_ok: the generation call returns the parsed response, else it raises;
\* response: a store, or the episode map of the arc for yumechain/cli.py
\* with --arc
GeneratePlot(program, arc_given, arc, dry_run, setting_ok, llm_ok, response) ==
    /\ call.op = "none"
    /\ LET read_ok == program = "main" \/ setting_ok
           called == CallsLLM(read_ok, dry_run)
           saved == called /\ llm_ok
           outcome == IF ~read_ok THEN "setting not found"
                      ELSE IF ~called THEN "dry run"
                      ELSE IF ~llm_ok THEN "failed"
                      ELSE "completed"
       IN  /\ plot_file' = IF ~saved THEN plot_file
                           ELSE IF program = "cli"
                           THEN CliPlotSaved(plot_file, arc_given, arc, response)
                           ELSE MainPlotSaved(plot_file, arc_given, response)
           /\ call' = [Idle EXCEPT !.op = "generate_plot", !.program = program,
                                   !.arc_given = arc_given,
                                   !.arc = IF arc_given THEN arc ELSE <<>>,
                                   !.dry_run = dry_run,
                                   !.api_calls = IF called THEN 1 ELSE 0,
                                   !.plot_data = IF called /\ llm_ok THEN response ELSE <<>>,
                                   !.outcome = outcome]
    /\ UNCHANGED <<stories, command, reader>>

\* FileManager.episode_exists(title, arc, episode)
EpisodeExists(files, arc, episode) == EpisodeFileName(arc, episode) \in DOMAIN files

\* FileManager.get_episode_plot(title, arc, episode): the text, or the
\* exception raised
EpisodePlot(pf, arc, episode) ==
    LET rp == ReadPlot(pf)
    IN  IF rp.raised # "none" THEN [raised |-> rp.raised, value |-> <<>>]
        ELSE IF arc \notin DictKeys(rp.value)
        THEN [raised |-> "ValueError", value |-> <<>>]
        ELSE IF ToStr(episode) \notin DictKeys(DictAt(rp.value, arc))
        THEN [raised |-> "ValueError", value |-> <<>>]
        ELSE [raised |-> "none", value |-> DictAt(DictAt(rp.value, arc), ToStr(episode))]

\* an entry of the command's log: what it did for an episode
Event(kind, episode) == [event |-> kind, episode |-> episode]

\* max_episode taken one above the number of entries
MaxEpisodePlusOne(episodes) == Len(episodes) + 1

\* max_episode = len(plot_data[arc]): the number of entries of the arc
MaxEpisode(episodes) == Len(episodes)

\* LoadEpisodeList going on with every episode of the arc when --episodes is
\* refused
LoadEpisodeListAll(program, pf, arc, episodes_str) ==
    LET rp == ReadPlot(pf)
    IN  IF rp.raised = "FileNotFoundError"
        THEN [outcome |-> "plot not loaded", list |-> <<>>]
        ELSE IF rp.raised # "none"
        THEN [outcome |-> IF program = "main" THEN "crashed" ELSE "plot not loaded",
              list |-> <<>>]
        ELSE IF arc \notin DictKeys(rp.value)
        THEN [outcome |-> "arc not found", list |-> <<>>]
        ELSE LET max_episode == MaxEpisode(DictAt(rp.value, arc))
                 r == ParseEpisodeNumbers(episodes_str, max_episode)
             IN  IF r.raised # "none"
                 THEN [outcome |-> "loaded", list |-> Sorted(1..max_episode)]
                 ELSE [outcome |-> "loaded", list |-> r.value]

\* the start of generate_episode: the plot document is read, the arc looked
\* up, max_episode taken as the number of its keys, --episodes parsed. In
\* main.py only FileNotFoundError is caught here: any other failure of
\* read_plot reaches the outer handler, which prints success_count before it
\* is assigned.
LoadEpisodeList(program, pf, arc, episodes_str) ==
    LET rp == ReadPlot(pf)
    IN  IF rp.raised = "FileNotFoundError"
        THEN [outcome |-> "plot not loaded", list |-> <<>>]
        ELSE IF rp.raised # "none"
        THEN [outcome |-> IF program = "main" THEN "crashed" ELSE "plot not loaded",
              list |-> <<>>]
        ELSE IF arc \notin DictKeys(rp.value)
        THEN [outcome |-> "arc not found", list |-> <<>>]
        ELSE LET max_episode == MaxEpisode(DictAt(rp.value, arc))
                 r == ParseEpisodeNumbers(episodes_str, max_episode)
             IN  IF r.raised # "none"
                 THEN [outcome |-> "invalid episodes", list |-> <<>>]
                 ELSE [outcome |-> "loaded", list |-> r.value]

\* generate_episode(title, arc, episodes, dry_run, force) up to its loop;
\* program: "cli" for yumechain/cli.py, "main" for main.py; setting_ok:
\* setting.md exists
StartGenerateEpisode(program, arc, tokens, dry_run, force, setting_ok) ==
    /\ command.pc = "idle"
    /\ LET l == LoadEpisodeList(program, plot_file, arc, ExpressionText(tokens))
           started == [NoCommand EXCEPT
                          !.program = program, !.arc = arc, !.tokens = tokens,
                          !.dry_run = dry_run, !.force = force,
                          !.stories_before = stories]
           ended(outcome) == [started EXCEPT !.pc = "done", !.outcome = outcome]
       IN  command' =
               IF l.outcome # "loaded" THEN ended(l.outcome)
               ELSE IF ~setting_ok THEN ended("setting not found")
               ELSE IF program = "main" /\ dry_run THEN ended("dry run")
               ELSE [started EXCEPT !.pc = "loop", !.episode_list = l.list,
                                    !.position = 1]
    /\ UNCHANGED <<plot_file, stories, call, reader>>

\* one turn of the loop of yumechain/cli.py: no test of the file, the assembler
\* called, its text saved; any exception leaves the loop
CliTurn(episode, llm_ok, generated) ==
    LET next == [command EXCEPT !.position = @ + 1]
        said(events) == [next EXCEPT !.log = @ \o events]
        left(events) == [command EXCEPT !.log = @ \o events, !.pc = "done",
                                        !.outcome = "failed"]
    IN  IF command.dry_run
        THEN /\ command' = said(<<Event("visit", episode), Event("skip", episode)>>)
             /\ UNCHANGED stories
        ELSE IF CurrentPlot(plot_file.data, command.arc, episode) = <<>>
        THEN /\ command' = left(<<Event("visit", episode), Event("error", episode)>>)
             /\ UNCHANGED stories
        ELSE IF ~llm_ok
        THEN /\ command' = left(<<Event("visit", episode), Event("generate", episode),
                                    Event("error", episode)>>)
             /\ UNCHANGED stories
        ELSE /\ command' = said(<<Event("visit", episode), Event("generate", episode),
                                    Event("save", episode)>>)
             /\ stories' = WriteEpisode(stories, command.arc, episode, generated)

\* a failure that is printed and not counted
CountErrorNot(c) == c

\* error_count += 1
CountError(c) == [c EXCEPT !.error_count = @ + 1]

\* one turn of the loop of main.py: an existing file is passed over unless
\* --force, the plot of the episode is looked up, the text generated and
\* saved; every failure is counted and the loop goes on
MainTurn(episode, llm_ok, generated) ==
    LET next == [command EXCEPT !.position = @ + 1]
        said(events) == [next EXCEPT !.log = @ \o events]
        failed(events) == CountError([next EXCEPT !.log = @ \o events])
    IN  IF EpisodeExists(stories, command.arc, episode) /\ ~command.force
        THEN /\ command' = said(<<Event("visit", episode), Event("skip", episode)>>)
             /\ UNCHANGED stories
        ELSE IF EpisodePlot(plot_file, command.arc, episode).raised # "none"
        THEN /\ command' = failed(<<Event("visit", episode), Event("error", episode)>>)
             /\ UNCHANGED stories
        ELSE IF ~llm_ok
        THEN /\ command' = failed(<<Event("visit", episode), Event("generate", episode),
                                      Event("error", episode)>>)
             /\ UNCHANGED stories
        ELSE /\ command' = [said(<<Event("visit", episode), Event("generate", episode),
                                     Event("save", episode)>>)
                               EXCEPT !.success_count = @ + 1]
             /\ stories' = WriteEpisode(stories, command.arc, episode, generated)

\* the loop over the episode list, one episode; llm_ok: the generation call
\* returns the text generated, else it raises
GenerateOneEpisode(llm_ok, generated) ==
    /\ command.pc = "loop"
    /\ command.position <= Len(command.episode_list)
    /\ IF command.program = "cli"
       THEN CliTurn(command.episode_list[command.position], llm_ok, generated)
       ELSE MainTurn(command.episode_list[command.position], llm_ok, generated)
    /\ UNCHANGED <<plot_file, call, reader>>

\* the end of the loop: main.py prints the success and error counts,
\* yumechain/cli.py prints that the episodes were generated
FinishGenerateEpisode ==
    /\ command.pc = "loop"
    /\ command.position > Len(command.episode_list)
    /\ command' = [command EXCEPT !.pc = "done", !.outcome = "completed",
                                  !.reported = (command.program = "main")]
    /\ UNCHANGED <<plot_file, stories, call, reader>>

\* PelicanServerManager.stop_server(): the process, if the manager holds
\* one, is terminated and waited for
StopServer(r) ==
    IF r.server_process # None
    THEN [r EXCEPT !.processes = @ \ {r.server_process}, !.server_process = None]
    ELSE r

\* PelicanServerManager.cleanup(): the server stopped, the temporary
\* directory, if the manager holds one that exists, removed
Cleanup(r) ==
    LET s == StopServer(r)
        t == IF s.temp_dir # None /\ s.temp_dir \in s.dirs
             THEN [s EXCEPT !.dirs = @ \ {s.temp_dir}, !.temp_dir = None]
             ELSE s
    IN  [t EXCEPT !.cleaned = TRUE]

\* the read command returns
Leave(r, outcome) == [r EXCEPT !.pc = "done", !.outcome = outcome]

\* read(title, port, no_browser) of main.py, or handle_read_command() of its
\* menu, up to the manager: PelicanServerManager(base_dir)
StartRead(interactive, port, no_browser) ==
    /\ reader.pc = "idle"
    /\ reader' = [NoReader EXCEPT !.pc = "prepare", !.interactive = interactive,
                                  !.port = port, !.auto_open = ~no_browser]
    /\ UNCHANGED <<plot_file, stories, call, command>>

\* manager.prepare_content(title) and the return of the command when it is
\* False; dir_exists: books/title/stories is there; copy_ok: the copying of
\* the files, the configuration and the theme raises nothing
PrepareContent(dir_exists, copy_ok) ==
    /\ reader.pc = "prepare"
    /\ dir_exists \/ DOMAIN stories = {}
    /\ LET fresh == reader.made + 1
           cleared == IF reader.temp_dir # None
                      THEN reader.dirs \ {reader.temp_dir} ELSE reader.dirs
           made == [reader EXCEPT !.dirs = cleared \cup {fresh},
                                  !.temp_dir = fresh, !.made = fresh]
       IN  reader' =
               IF ~dir_exists THEN Leave(reader, "not prepared")
               ELSE IF DOMAIN stories = {} \/ ~copy_ok
               THEN Leave(made, "not prepared")
               ELSE [made EXCEPT !.pc = "build"]
    /\ UNCHANGED <<plot_file, stories, call, command>>

\* manager.build_site() and, when it is False, cleanup and return
BuildSite(build_ok) ==
    /\ reader.pc = "build"
    /\ reader' = IF reader.temp_dir # None /\ build_ok
                 THEN [reader EXCEPT !.pc = "start"]
                 ELSE Leave(Cleanup(reader), "not built")
    /\ UNCHANGED <<plot_file, stories, call, command>>

\* manager.start_server(port, auto_open) and, when it is False, cleanup and
\* return; start_ok: Popen raises nothing
StartServer(start_ok) ==
    /\ reader.pc = "start"
    /\ LET pid == reader.started + 1
       IN  reader' =
               IF reader.temp_dir # None /\ start_ok
               THEN [reader EXCEPT !.pc = "wait", !.server_process = pid,
                                   !.processes = @ \cup {pid}, !.started = pid]
               ELSE Leave(Cleanup(reader), "not started")
    /\ UNCHANGED <<plot_file, stories, call, command>>

\* manager.wait_for_server() in its try/finally; how: the server process
\* exits by itself, or Ctrl+C comes while waiting and stop_server is called,
\* or the wait raises an exception, which after the cleanup of finally
\* reaches the handler that cleans up again
WaitForServer(how) ==
    /\ reader.pc = "wait"
    /\ reader' =
          IF how = "exit"
          THEN Leave(Cleanup([reader EXCEPT
                                 !.processes = @ \ {reader.server_process}]),
                     "finished")
          ELSE IF how = "interrupt"
          THEN Leave(Cleanup(StopServer(reader)), "finished")
          ELSE Leave(Cleanup(Cleanup(reader)), "error")
    /\ UNCHANGED <<plot_file, stories, call, command>>

\* Ctrl+C while the manager prepares, builds or starts: KeyboardInterrupt is
\* no Exception, so it leaves the method and reaches the handler of the
\* command, which cleans up; partway: the method had made its temporary
\* directory, or had started its process, when it was interrupted
InterruptRead(partway) ==
    /\ reader.pc \in {"prepare", "build", "start"}
    /\ LET fresh == reader.made + 1
           pid == reader.started + 1
           at == IF reader.pc = "prepare" /\ partway
                 THEN [reader EXCEPT !.dirs = @ \cup {fresh}, !.temp_dir = fresh,
                                     !.made = fresh]
                 ELSE IF reader.pc = "start" /\ partway
                 THEN [reader EXCEPT !.server_process = pid,
                                     !.processes = @ \cup {pid}, !.started = pid]
                 ELSE reader
       IN  reader' = Leave(Cleanup(at), "interrupted")
    /\ UNCHANGED <<plot_file, stories, call, command>>

\* the caller takes the outcome; the next operation may start
Return ==
    /\ call.op # "none"
    /\ call' = Idle
    /\ UNCHANGED <<plot_file, stories, command, reader>>

----------------------------------------------------------------------------
(* Specifications *)

\* the adjacency lookups on any store
Next ==
    \/ \E arc \in QueryArcs, episode \in QueryEpisodes, passed \in BOOLEAN :
          GetPreviousEpisodeContent(arc, episode, passed)
    \/ \E arc \in QueryArcs, episode \in QueryEpisodes, direction \in {"previous", "next"} :
          GetAdjacentEpisodePlot(arc, episode, direction)
    \/ Return

Spec == Init /\ [][Next]_vars

\* the context assembler and the store accessor on any store
NextAssembler ==
    \/ \E arc \in QueryArcs, episode \in QueryEpisodes, cached \in BOOLEAN,
          llm_ok \in BOOLEAN, generated \in EpisodeContents :
          GenerateEpisodeWithContext(arc, episode, cached, llm_ok, generated)
    \/ \E arc \in QueryArcs, episode \in QueryEpisodes : GetEpisodePlot(arc, episode)
    \/ Return

SpecAssembler == Init /\ [][NextAssembler]_vars

\* the parser of episode-selection expressions on any expression
InitParser ==
    /\ plot_file = [state |-> "missing", data |-> <<>>]
    /\ stories = <<>>
    /\ call = Idle
    /\ command = NoCommand
    /\ reader = NoReader

NextParser ==
    \/ /\ call.op = "none"
       /\ \E tokens \in Expressions, max_episode \in MaxEpisodes :
             ParseEpisodeNumbersCall(tokens, max_episode)
    \/ Return

SpecParser == InitParser /\ [][NextParser]_vars

\* saving plots onto any plot document: none, or a document of a store, well
\* formed or with a slip of syntax in it
InitStore ==
    /\ plot_file \in
          {[state |-> "missing", data |-> <<>>]}
          \cup {[state |-> st, data |-> pd] :
                   st \in {"ok", "malformed"}, pd \in SavedStores}
    /\ stories = <<>>
    /\ call = Idle
    /\ command = NoCommand
    /\ reader = NoReader

NextStore ==
    \/ /\ call.op = "none"
       /\ \E plot_data \in SavedStores, merge \in BOOLEAN : SavePlot(plot_data, merge)
    \/ Return

SpecStore == InitStore /\ [][NextStore]_vars

\* the generate-episode command of either program, once, on any store
InitCommand ==
    /\ plot_file \in
          {[state |-> "missing", data |-> <<>>], [state |-> "malformed", data |-> <<>>]}
          \cup {[state |-> "ok", data |-> pd] : pd \in CommandStores}
    /\ stories \in Shelves
    /\ call = Idle
    /\ command = NoCommand
    /\ reader = NoReader

NextCommand ==
    \/ /\ command.pc = "idle"
       /\ \E program \in {"cli", "main"}, arc \in QueryArcs,
             tokens \in CommandExpressions, dry_run \in BOOLEAN, force \in BOOLEAN,
             setting_ok \in BOOLEAN :
             StartGenerateEpisode(program, arc, tokens, dry_run, force, setting_ok)
    \/ \E llm_ok \in BOOLEAN, generated \in EpisodeContents :
          GenerateOneEpisode(llm_ok, generated)
    \/ FinishGenerateEpisode

SpecCommand == InitCommand /\ [][NextCommand]_vars

\* the generate-plot command of either program on any plot document
InitPlot ==
    /\ plot_file \in PlotDocuments(QueryArcs)
    /\ stories = <<>>
    /\ call = Idle
    /\ command = NoCommand
    /\ reader = NoReader

NextPlot ==
    \/ /\ call.op = "none"
       /\ \E program \in {"cli", "main"}, arc_given \in BOOLEAN, arc \in QueryArcs,
             dry_run \in BOOLEAN, setting_ok \in BOOLEAN, llm_ok \in BOOLEAN :
             \E response \in IF program = "cli" /\ arc_given
                              THEN GeneratedMaps(arc)
                              ELSE GeneratedStores(QueryArcs) :
                GeneratePlot(program, arc_given, arc, dry_run, setting_ok, llm_ok,
                             response)
    \/ Return

SpecPlot == InitPlot /\ [][NextPlot]_vars

\* one command of either program, generate-plot or generate-episode, on any
\* store and any shelf of episode files
NextCommands ==
    \/ /\ call.op = "none"
       /\ NextCommand
    \/ /\ call.op = "none"
       /\ command.pc = "idle"
       /\ \E program \in {"cli", "main"}, arc_given \in BOOLEAN,
             dry_run \in BOOLEAN, setting_ok \in BOOLEAN, llm_ok \in BOOLEAN :
             \E response \in IF program = "cli" /\ arc_given
                              THEN GeneratedMaps(ArcA)
                              ELSE GeneratedStores({ArcA}) :
                GeneratePlot(program, arc_given, ArcA, dry_run, setting_ok, llm_ok,
                             response)

SpecCommands == InitCommand /\ [][NextCommands]_vars

\* the lookup of the previous episode on stores of the arcs "第二編" and
\* "第十編"
NamedArcs == {ArcDaiNi, ArcDaiJu}

InitNamedArcs ==
    /\ plot_file \in PlotDocuments(NamedArcs)
    /\ stories = <<>>
    /\ call = Idle
    /\ command = NoCommand
    /\ reader = NoReader

NextNamedArcs ==
    \/ \E arc \in NamedArcs, episode \in 1..MaxEps, passed \in BOOLEAN :
          GetPreviousEpisodeContent(arc, episode, passed)
    \/ Return

SpecNamedArcs == InitNamedArcs /\ [][NextNamedArcs]_vars

\* saving and reading episode files, from an empty stories/ directory
InitStories ==
    /\ plot_file = [state |-> "missing", data |-> <<>>]
    /\ stories = <<>>
    /\ call = Idle
    /\ command = NoCommand
    /\ reader = NoReader

NextStories ==
    \/ /\ call.op = "none"
       /\ \E arc \in QueryArcs, episode \in QueryEpisodes, content \in SavedContents :
             SaveEpisode(arc, episode, content)
    \/ \E arc \in QueryArcs, episode \in QueryEpisodes : ReadEpisodeCall(arc, episode)
    \/ Return

SpecStories == InitStories /\ [][NextStories]_vars

\* the read command of main.py, once, on any shelf of episode files
Ports == {8000, 8001}

InitReader ==
    /\ plot_file = [state |-> "missing", data |-> <<>>]
    /\ stories \in Shelves
    /\ call = Idle
    /\ command = NoCommand
    /\ reader = NoReader

NextReader ==
    \/ \E interactive \in BOOLEAN, port \in Ports, no_browser \in BOOLEAN :
          StartRead(interactive, port, no_browser)
    \/ \E dir_exists \in BOOLEAN, copy_ok \in BOOLEAN : PrepareContent(dir_exists, copy_ok)
    \/ \E build_ok \in BOOLEAN : BuildSite(build_ok)
    \/ \E start_ok \in BOOLEAN : StartServer(start_ok)
    \/ \E how \in {"exit", "interrupt", "exception"} : WaitForServer(how)
    \/ \E partway \in BOOLEAN : InterruptRead(partway)

SpecReader == InitReader /\ [][NextReader]_vars

----------------------------------------------------------------------------
(* What the properties speak of, stated apart from the operations *)

ResolverOps == {"get_previous_episode_content", "get_adjacent_episode_plot"}

\* an adjacency lookup has run on a store that was read
Resolved == call.op \in ResolverOps /\ plot_file.state = "ok"

\* a adjacency lookup over plot texts has run
Adjacent(direction) ==
    /\ call.op = "get_adjacent_episode_plot"
    /\ call.direction = direction

\* a before b by code points: at the first place they differ a has the lower
\* code point, or a ends there and b goes on
CodePointBefore(a, b) ==
    \E k \in 1..(Len(a) + 1) :
        /\ k <= Len(b)
        /\ \A j \in 1..(k - 1) : a[j] = b[j]
        /\ (k = Len(a) + 1 \/ a[k] < b[k])

\* (arc, number) before (arc, number): arc name first, then the number
EntryBefore(x, y) ==
    \/ CodePointBefore(x[1], y[1])
    \/ x[1] = y[1] /\ x[2] < y[2]

\* the numbered entries of a store: (arc, n) for every key that is the decimal
\* text of n
NumberedEntries(pd) ==
    {e \in {<<pd[i][1], n>> : i \in 1..Len(pd), n \in 0..MaxEpisodeNumber} :
        NatToStr(e[2]) \in DictKeys(DictAt(pd, e[1]))}

\* the stored plot text of a numbered entry
TextOf(pd, e) == DictAt(DictAt(pd, e[1]), NatToStr(e[2]))

\* the place (from 1) of the target in the order the lookup built, 0 if none
TargetPlace ==
    LET all == call.all_episodes
        at == {i \in 1..Len(all) : all[i][1] = call.arc /\ all[i][2] = call.episode}
    IN  IF at = {} THEN 0 ELSE CHOOSE i \in at : \A j \in at : i <= j

\* the entry at a place of the order the lookup built
EntryAt(i) == <<call.all_episodes[i][1], call.all_episodes[i][2]>>

\* the arcs that hold a numbered entry, and their lowest and highest numbers
NumberedArcs(pd) == {e[1] : e \in NumberedEntries(pd)}
LowestOf(pd, arc) ==
    CHOOSE e \in NumberedEntries(pd) :
        e[1] = arc /\ \A f \in NumberedEntries(pd) : f[1] = arc => e[2] <= f[2]
HighestOf(pd, arc) ==
    CHOOSE e \in NumberedEntries(pd) :
        e[1] = arc /\ \A f \in NumberedEntries(pd) : f[1] = arc => e[2] >= f[2]

\* b is the arc that follows a among the arcs holding numbered entries
Follows(pd, a, b) ==
    /\ a \in NumberedArcs(pd) /\ b \in NumberedArcs(pd)
    /\ CodePointBefore(a, b)
    /\ \A c \in NumberedArcs(pd) : ~(CodePointBefore(a, c) /\ CodePointBefore(c, b))

----------------------------------------------------------------------------
(* Properties *)

\* C1: the order a lookup builds holds exactly the numbered entries of the
\* store, ascending by arc name compared by code points and then by episode
\* number compared as an integer, whatever the insertion order of the store.
C1_GlobalOrderSorted ==
    Resolved =>
        LET all == call.all_episodes
        IN  /\ \A i, j \in 1..Len(all) : i < j => EntryBefore(EntryAt(i), EntryAt(j))
            /\ {EntryAt(i) : i \in 1..Len(all)} = NumberedEntries(plot_file.data)

\* C1 witness: a store that lists arc "AB" before arc "A" and key "10" before
\* key "2"; the order built starts (A, 2), (A, 10) and then has arc "AB".
C1_Witness ==
    /\ Resolved
    /\ Len(plot_file.data) = 2
    /\ plot_file.data[1][1] = ArcAB /\ plot_file.data[2][1] = ArcA
    /\ Len(plot_file.data[2][2]) = 2
    /\ plot_file.data[2][2][1][1] = Key10 /\ plot_file.data[2][2][2][1] = Key2
    /\ Len(call.all_episodes) = 3
    /\ EntryAt(1) = <<ArcA, 2>> /\ EntryAt(2) = <<ArcA, 10>>
    /\ EntryAt(3)[1] = ArcAB

\* the neighbour across an arc boundary that C2 speaks of, for the lookup that
\* has run: the lowest entry of the following arc after the highest entry of
\* an arc, the highest entry of the preceding arc before the lowest of an arc
CrossingNeighbours ==
    LET pd == plot_file.data
        here == <<call.arc, call.episode>>
    IN  {HighestOf(pd, a) : a \in {a \in NumberedArcs(pd) :
              /\ Adjacent("previous") /\ Follows(pd, a, call.arc)
              /\ here = LowestOf(pd, call.arc)}}
        \cup
        {LowestOf(pd, b) : b \in {b \in NumberedArcs(pd) :
              /\ Adjacent("next") /\ Follows(pd, call.arc, b)
              /\ here = HighestOf(pd, call.arc)}}

\* C2 as stated: across an arc boundary the lookup returns the text of the
\* neighbouring arc's nearest entry, and that result is never empty.
C2_CrossingNeverEmpty ==
    (call.op = "get_adjacent_episode_plot" /\ plot_file.state = "ok") =>
        \A n \in CrossingNeighbours :
            call.result = TextOf(plot_file.data, n) /\ call.result # <<>>

\* C2 amended: across an arc boundary the lookup returns the stored text of the
\* neighbouring arc's nearest entry; it is empty only if that stored text is.
C2_CrossingArcs ==
    (call.op = "get_adjacent_episode_plot" /\ plot_file.state = "ok") =>
        \A n \in CrossingNeighbours :
            /\ call.result = TextOf(plot_file.data, n)
            /\ TextOf(plot_file.data, n) # <<>> => call.result # <<>>

\* C2 witness: the lookup after the highest entry (A, 10) of arc "A" returns
\* the text "AB/2" of the lowest entry of the following arc "AB".
C2_Witness ==
    /\ Adjacent("next")
    /\ call.arc = ArcA /\ call.episode = 10
    /\ NumberedEntries(plot_file.data) = {<<ArcA, 2>>, <<ArcA, 10>>, <<ArcAB, 2>>}
    /\ call.result = ArcAB \o <<47>> \o Key2

\* the target of the lookup that has run is a numbered entry of the store
TargetInStore == <<call.arc, call.episode>> \in NumberedEntries(plot_file.data)

\* the lookup over plot texts has run on a store that was read
AdjacentRan(direction) == Adjacent(direction) /\ plot_file.state = "ok"

\* C3: a lookup of the previous neighbour whose target is at index i of the
\* order returns the stored text of the entry at index i - 1 when i > 0 and
\* the empty string when i = 0.
C3_PreviousNeighbour ==
    (AdjacentRan("previous") /\ TargetInStore) =>
        /\ TargetPlace > 0
        /\ call.current_index = TargetPlace - 1
        /\ call.result = IF TargetPlace > 1
                         THEN TextOf(plot_file.data, EntryAt(TargetPlace - 1))
                         ELSE <<>>

\* C3 witness: the target (AB, 2) is first in its arc and third in the order;
\* the lookup returns the text "A/10" of the entry before it.
C3_Witness ==
    /\ AdjacentRan("previous")
    /\ call.arc = ArcAB /\ call.episode = 2
    /\ TargetPlace = 3
    /\ call.result = ArcA \o <<47>> \o Key10

\* C4: a lookup of the next neighbour whose target is at index i of the order
\* returns the stored text of the entry at index i + 1 when there is one and
\* the empty string when the target is the last element of the order.
C4_NextNeighbour ==
    (AdjacentRan("next") /\ TargetInStore) =>
        /\ TargetPlace > 0
        /\ call.current_index = TargetPlace - 1
        /\ call.result = IF TargetPlace < Len(call.all_episodes)
                         THEN TextOf(plot_file.data, EntryAt(TargetPlace + 1))
                         ELSE <<>>

\* C4 witness: the target is the last of three elements, and not the only
\* entry of its arc; the lookup returns the empty string.
C4_Witness ==
    /\ AdjacentRan("next")
    /\ Len(call.all_episodes) = 3
    /\ TargetPlace = 3
    /\ EntryAt(2)[1] = call.arc
    /\ call.result = <<>>

\* C5: from the entry before the target, the next neighbour is the target's
\* stored text; from the entry after the target, the previous neighbour is.
C5_LocalInvertibility ==
    LET pd == plot_file.data
        here == <<call.arc, call.episode>>
    IN  /\ (AdjacentRan("previous") /\ TargetInStore /\ TargetPlace > 1) =>
               AdjacentEpisodePlot(pd, EntryAt(TargetPlace - 1)[1],
                                   EntryAt(TargetPlace - 1)[2], "next")
                   = TextOf(pd, here)
        /\ (AdjacentRan("next") /\ TargetInStore
                /\ TargetPlace < Len(call.all_episodes)) =>
               AdjacentEpisodePlot(pd, EntryAt(TargetPlace + 1)[1],
                                   EntryAt(TargetPlace + 1)[2], "previous")
                   = TextOf(pd, here)

\* C5 witness: the previous neighbour of (AB, 10) is (AB, 2), in a store
\* where arc "A" holds an episode 10 too; the target's text is "AB/10".
C5_Witness ==
    /\ AdjacentRan("previous")
    /\ call.arc = ArcAB /\ call.episode = 10
    /\ <<ArcA, 10>> \in NumberedEntries(plot_file.data)
    /\ TargetInStore
    /\ TargetPlace > 1
    /\ EntryAt(TargetPlace - 1) = <<ArcAB, 2>>
    /\ TextOf(plot_file.data, <<ArcAB, 10>>) = ArcAB \o <<47>> \o Key10

\* the sequence d with its items at places i and i + 1 exchanged
Exchanged(d, i) ==
    [k \in 1..Len(d) |-> IF k = i THEN d[i + 1] ELSE IF k = i + 1 THEN d[i] ELSE d[k]]

\* the stores with the content of pd that list two neighbouring arcs, or two
\* neighbouring keys of one arc, the other way round. Every store of the
\* model is examined, and every reordering is a chain of such exchanges.
Reorderings(pd) ==
    {Exchanged(pd, i) : i \in 1..(Len(pd) - 1)}
    \cup
    UNION {{[pd EXCEPT ![i] = <<pd[i][1], Exchanged(pd[i][2], k)>>] :
               k \in 1..(Len(pd[i][2]) - 1)} : i \in 1..Len(pd)}

\* C6: a lookup leaves the store as it was, and a store with the same content
\* in another insertion order gives the order and the answer it gave.
C6_OrderIsFunctionOfContent ==
    [][(call'.op \in ResolverOps /\ plot_file.state = "ok") =>
          /\ plot_file' = plot_file
          /\ \A pd2 \in Reorderings(plot_file.data) :
                IF call'.op = "get_adjacent_episode_plot"
                THEN /\ GlobalOrder(pd2) = call'.all_episodes
                     /\ AdjacentEpisodePlot(pd2, call'.arc, call'.episode,
                                            call'.direction) = call'.result
                ELSE AllEpisodes(pd2) = call'.all_episodes]_vars

\* C6 witness: a lookup has answered with a text on a store that lists arc
\* "AB" before arc "A" and, in arc "A", key "10" before key "2".
C6_Witness ==
    /\ AdjacentRan("next")
    /\ call.result # <<>>
    /\ Len(plot_file.data) = 2
    /\ plot_file.data[1][1] = ArcAB
    /\ Len(plot_file.data[2][2]) = 2
    /\ plot_file.data[2][2][1][1] = Key10
    /\ plot_file.data[2][2][2][1] = Key2

\* the target of the lookup has no neighbour in the direction asked for
NoNeighbour ==
    /\ TargetInStore
    /\ \/ call.direction = "previous" /\ TargetPlace = 1
       \/ call.direction = "next" /\ TargetPlace = Len(call.all_episodes)

\* C7: a lookup whose target matches no element of the order returns the
\* empty string and raises nothing, in either direction.
C7_TargetNotFoundIsEmpty ==
    (Resolved /\ ~TargetInStore) =>
        /\ call.current_index = None
        /\ call.result = <<>>
        /\ call.raised = "none"

\* C7 witness: the next neighbour was asked of episode (A, 10), which the
\* store does not hold, arc "A" holding episode 2 and arc "AB" episode 10.
C7_Witness ==
    /\ AdjacentRan("next")
    /\ call.arc = ArcA /\ call.episode = 10
    /\ NumberedEntries(plot_file.data) = {<<ArcA, 2>>, <<ArcAB, 10>>}
    /\ call.result = <<>> /\ call.raised = "none"

\* C8 as stated: a lookup raises nothing when its target has no neighbour, and
\* raises when its target is not in the store.
C8_RaisesWhenTargetAbsent ==
    Resolved =>
        /\ NoNeighbour => call.raised = "none"
        /\ ~TargetInStore => call.raised # "none"

\* C8 amended: a lookup on a store that was read raises nothing, neither when
\* its target has no neighbour nor when its target is not in the store; in
\* both cases it returns the empty string.
C8_LookupNeverRaises ==
    Resolved =>
        /\ call.raised = "none"
        /\ (NoNeighbour \/ ~TargetInStore) => call.result = <<>>

\* C8 witness: get_previous_episode_content was asked of an arc the store does
\* not hold, the store holding other arcs; it returned the empty string.
C8_Witness ==
    /\ call.op = "get_previous_episode_content"
    /\ plot_file.state = "ok"
    /\ call.arc = ArcA
    /\ ArcA \notin DictKeys(plot_file.data)
    /\ Len(call.all_episodes) >= 2
    /\ call.result = <<>> /\ call.raised = "none"

\* a key that is the decimal text of no number
Unnumbered(key) == \A n \in 0..MaxEpisodeNumber : key # NatToStr(n)

\* the store without its unnumbered keys
WithoutUnnumbered(pd) ==
    [i \in 1..Len(pd) |->
        <<pd[i][1], SelectSeq(pd[i][2], LAMBDA item : ~Unnumbered(item[1]))>>]

HasUnnumbered(pd) ==
    \E i \in 1..Len(pd) : \E k \in DictKeys(pd[i][2]) : Unnumbered(k)

\* C9: on a store holding a key that is no integer, a lookup raises nothing
\* and builds the order, and gives the answer, of the store without that key.
C9_UnparsableKeySkipped ==
    (Resolved /\ HasUnnumbered(plot_file.data)) =>
        LET rest == WithoutUnnumbered(plot_file.data)
        IN  /\ call.raised = "none"
            /\ {EntryAt(i) : i \in 1..Len(call.all_episodes)}
                   = NumberedEntries(plot_file.data)
            /\ IF call.op = "get_adjacent_episode_plot"
               THEN /\ call.all_episodes = GlobalOrder(rest)
                    /\ call.result = AdjacentEpisodePlot(rest, call.arc, call.episode,
                                                         call.direction)
               ELSE call.all_episodes = AllEpisodes(rest)

\* C9 witness: arc "A" lists the key "x" before the key "2" and arc "AB"
\* holds an episode; the order built is (A, 2), (AB, 10).
C9_Witness ==
    /\ call.op = "get_previous_episode_content"
    /\ plot_file.state = "ok"
    /\ Len(plot_file.data) = 2
    /\ plot_file.data[1][1] = ArcA
    /\ Len(plot_file.data[1][2]) = 2
    /\ plot_file.data[1][2][1][1] = KeyX /\ plot_file.data[1][2][2][1] = Key2
    /\ call.all_episodes = <<(<<ArcA, 2>>), (<<ArcAB, 10>>)>>

\* the target of the assembler is an entry of the store: plot_store[arc] has
\* the key str(episode)
TargetPresent ==
    /\ call.arc \in DictKeys(plot_file.data)
    /\ ToStr(call.episode) \in DictKeys(DictAt(plot_file.data, call.arc))

\* C10: the assembler takes plot_store[arc][str(episode)] as current_plot for
\* every target in the store, and fails with the not-found error, no
\* generation call made, for every target not in the store.
C10_CurrentPlotOrNotFound ==
    call.op = "generate_episode_with_context" =>
        /\ TargetPresent =>
              /\ call.raised # "ValueError"
              /\ call.current_plot
                    = DictAt(DictAt(plot_file.data, call.arc), ToStr(call.episode))
        /\ ~TargetPresent => (call.raised = "ValueError" /\ call.api_calls = 0)

\* the assembler has found a current plot and has built its prompt
PromptBuilt == call.op = "generate_episode_with_context" /\ call.api_calls = 1

\* has_context: at least one of the neighbours' plot texts is not empty
HasContext == call.previous_plot # <<>> \/ call.next_plot # <<>>

\* C11: the assembler builds the prompt with adjacency context exactly when
\* previous_plot or next_plot is not empty and the plain prompt exactly when
\* both are empty, with context caching enabled and with it disabled.
C11_PromptVariantSelection ==
    PromptBuilt =>
        /\ call.cached =>
              /\ HasContext <=> call.prompt = "cached_with_context"
              /\ ~HasContext <=> call.prompt = "cached_plain"
        /\ ~call.cached =>
              /\ HasContext <=> call.prompt = "with_context"
              /\ ~HasContext <=> call.prompt = "plain"

\* C11 witness: with caching enabled the target has no previous neighbour and
\* a next neighbour with a text; the prompt with adjacency context is built.
C11_Witness ==
    /\ PromptBuilt
    /\ call.cached
    /\ call.previous_plot = <<>> /\ call.next_plot # <<>>
    /\ call.prompt = "cached_with_context"

\* the parser has run on the text of call.tokens
ParserRan == call.op = "parse_episode_numbers"

\* the numbers of the list the parser returned
Returned == {call.result[i] : i \in 1..Len(call.result)}

\* a token is valid for a limit: an integer of [1, limit], or a range
\* start-end with start <= end that lies in [1, limit]
ValidToken(t, limit) ==
    /\ t.kind \in {"single", "range"}
    /\ t.start <= t.end
    /\ 1 <= t.start /\ t.end <= limit

\* the numbers a token names
Named(t) == t.start..t.end

AllTokensValid ==
    \A i \in 1..Len(call.tokens) : ValidToken(call.tokens[i], call.max_episode)

\* C12: for an expression of valid tokens only, the parser returns the union
\* of the numbers the tokens name as a strictly ascending list, every element
\* in [1, max_episode], whatever the order and repetition of the tokens.
C12_UnionAscending ==
    (ParserRan /\ AllTokensValid) =>
        /\ call.raised = "none"
        /\ Returned = UNION {Named(call.tokens[i]) : i \in 1..Len(call.tokens)}
        /\ \A i, j \in 1..Len(call.result) : i < j => call.result[i] < call.result[j]
        /\ \A n \in Returned : 1 <= n /\ n <= call.max_episode

\* C12 witness: "2,1-2" with max_episode 2 gives [1, 2]: the tokens are out of
\* order and name the number 2 twice.
C12_Witness ==
    /\ ParserRan
    /\ call.episodes_str = <<50, 44, 49, 45, 50>>
    /\ call.max_episode = 2
    /\ call.result = <<1, 2>>

\* C13: a range token start-end with start > end, or with a number outside
\* [1, max_episode], makes the whole call fail with no list returned, also
\* after valid tokens; a valid range token adds every number of [start, end]
\* to the list of a call that returns.
C13_RangeToken ==
    ParserRan =>
        \A i \in 1..Len(call.tokens) :
            LET t == call.tokens[i]
            IN  t.kind = "range" =>
                  /\ t.start > t.end => (call.raised = "ValueError" /\ call.result = <<>>)
                  /\ (\E n \in Named(t) : n < 1 \/ n > call.max_episode) =>
                         (call.raised = "ValueError" /\ call.result = <<>>)
                  /\ (ValidToken(t, call.max_episode) /\ call.raised = "none") =>
                         Named(t) \subseteq Returned
                  /\ (ValidToken(t, call.max_episode) /\ Len(call.tokens) = 1) =>
                         (call.raised = "none" /\ Returned = Named(t))

\* C13 witness: "1,0-2" with max_episode 2: the token "1" is valid, the range
\* starts below 1; the call fails and returns no list.
C13_Witness ==
    /\ ParserRan
    /\ call.episodes_str = <<49, 44, 48, 45, 50>>
    /\ call.max_episode = 2
    /\ call.raised = "ValueError" /\ call.result = <<>>

\* C14: a token without "-" that is no integer, or an integer outside
\* [1, max_episode], makes the call fail; one that is an integer of
\* [1, max_episode] adds exactly that number.
C14_SingleToken ==
    ParserRan =>
        \A i \in 1..Len(call.tokens) :
            LET t == call.tokens[i]
            IN  /\ t.kind = "word" => call.raised = "ValueError"
                /\ (t.kind = "single" /\ (t.start < 1 \/ t.start > call.max_episode)) =>
                       call.raised = "ValueError"
                /\ (t.kind = "single" /\ ValidToken(t, call.max_episode)
                        /\ call.raised = "none") => t.start \in Returned
                /\ (t.kind = "single" /\ ValidToken(t, call.max_episode)
                        /\ Len(call.tokens) = 1) =>
                       (call.raised = "none" /\ call.result = <<t.start>>)

\* C14 witness: "3" with max_episode 2: an integer above the limit; the call
\* fails.
C14_Witness ==
    /\ ParserRan
    /\ call.episodes_str = <<51>>
    /\ call.max_episode = 2
    /\ call.raised = "ValueError" /\ call.error = "out of range"

\* a token of the expression is empty or blank
HasBlankToken ==
    \E i \in 1..Len(call.tokens) : Strip(call.tokens[i].text) = <<>>

\* C15: the parser never returns an empty list: the empty expression and an
\* expression with an empty token make the call fail.
C15_NeverEmptyList ==
    ParserRan =>
        /\ call.raised = "none" => call.result # <<>>
        /\ call.episodes_str = <<>> => call.raised = "ValueError"
        /\ HasBlankToken => call.raised = "ValueError"

\* C15 witness: "1," with max_episode 2: a valid token, then an empty token
\* after the comma; the call fails.
C15_Witness ==
    /\ ParserRan
    /\ call.episodes_str = <<49, 44>>
    /\ call.max_episode = 2
    /\ call.raised = "ValueError"

\* the episode map of an arc of a store
MapOf(pd, arc) == DictAt(pd, arc)

\* C16: save_plot with merge onto a readable store writes a store whose arcs
\* are the arcs of the old store and of the new data; an arc of the new data
\* has the new episode map, whole, and any other arc keeps its old map.
C16_MergeByArc ==
    [][(call'.op = "save_plot" /\ call'.merge /\ plot_file.state = "ok") =>
          LET old == plot_file.data
              new == call'.plot_data
              out == plot_file'.data
          IN  /\ plot_file'.state = "ok"
              /\ DictKeys(out) = DictKeys(old) \cup DictKeys(new)
              /\ Len(out) = Cardinality(DictKeys(out))
              /\ \A arc \in DictKeys(new) : MapOf(out, arc) = MapOf(new, arc)
              /\ \A arc \in DictKeys(old) \ DictKeys(new) :
                    MapOf(out, arc) = MapOf(old, arc)]_vars

\* C16 witness: arc "A" was saved with merge onto a store of two arcs, and the
\* store written holds arc "AB" with episode 10 and arc "A" with episode 2
\* alone: the new map of "A" names no episode 10.
C16_Witness ==
    /\ call.op = "save_plot" /\ call.merge
    /\ DictKeys(call.plot_data) = {ArcA}
    /\ plot_file.state = "ok"
    /\ Len(plot_file.data) = 2
    /\ plot_file.data[1][1] = ArcAB /\ plot_file.data[2][1] = ArcA
    /\ DictKeys(plot_file.data[1][2]) = {Key10}
    /\ DictKeys(plot_file.data[2][2]) = {Key2}
    /\ plot_file.data[2][2][1][2] = <<>>

\* the episodes the command was asked for, once its list is parsed
Requested == {command.episode_list[i] : i \in 1..Len(command.episode_list)}

\* the places of the log where the command did this
Places(kind) == {i \in 1..Len(command.log) : command.log[i].event = kind}

\* the episodes for which the command did this
Episodes(kind) == {command.log[i].episode : i \in Places(kind)}

\* the command has run its loop to the end or has left it on a failure
LoopEnded == command.pc = "done" /\ command.outcome \in {"completed", "failed"}

\* an episode of the batch other than its last has failed
FailedBeforeLast ==
    \E n \in Episodes("error") : n # command.episode_list[Len(command.episode_list)]

\* C17: a batch goes on past the failure of one episode: when the loop has
\* ended after a failure, every later requested episode was attempted too, and
\* the run has reported the counts of successes and failures.
C17_BatchContinues ==
    (LoopEnded /\ ~command.dry_run /\ FailedBeforeLast) =>
        /\ Requested \subseteq Episodes("visit")
        /\ command.reported

\* what the command was started on does not let it generate: the plot
\* document is missing or malformed, or lacks the arc, or a token of
\* --episodes is not valid for the number of episodes of the arc
PreconditionFails ==
    \/ plot_file.state # "ok"
    \/ command.arc \notin DictKeys(plot_file.data)
    \/ \E i \in 1..Len(command.tokens) :
          ~ValidToken(command.tokens[i], Len(DictAt(plot_file.data, command.arc)))

\* C18: a command started on a plot document that cannot be loaded, on an
\* arc the store lacks or with an invalid --episodes has ended, has made no
\* generation call and has left every episode file as it was.
C18_AbortsBeforeGeneration ==
    (command.pc # "idle" /\ PreconditionFails) =>
        /\ command.pc = "done"
        /\ command.outcome \in
              {"plot not loaded", "crashed", "arc not found", "invalid episodes"}
        /\ command.log = <<>>
        /\ stories = command.stories_before

\* C18 witness: --episodes 1-2 on an arc of one episode, with episode files
\* on the shelf: the command ended on the invalid expression.
C18_Witness ==
    /\ command.pc = "done"
    /\ command.outcome = "invalid episodes"
    /\ command.tokens = <<Token("range", 1, 2, <<49, 45, 50>>)>>
    /\ plot_file.state = "ok"
    /\ command.arc \in DictKeys(plot_file.data)
    /\ Len(DictAt(plot_file.data, command.arc)) = 1
    /\ stories # <<>>
    /\ command.log = <<>>

\* C19: the generation calls of a batch are made for requested episodes in
\* strictly ascending order of the episode number, and between two calls the
\* earlier episode was saved, or its call had failed; a saved episode has its
\* file.
C19_SequentialAscending ==
    /\ Episodes("generate") \subseteq Requested
    /\ \A i, j \in Places("generate") :
          i < j =>
            /\ command.log[i].episode < command.log[j].episode
            /\ \E k \in (i + 1)..(j - 1) :
                  /\ command.log[k].episode = command.log[i].episode
                  /\ command.log[k].event \in {"save", "error"}
    /\ \A k \in Places("save") :
          /\ k > 1
          /\ command.log[k - 1] = Event("generate", command.log[k].episode)
          /\ EpisodeExists(stories, command.arc, command.log[k].episode)

\* C19 witness: --episodes 2,1 names episode 2 first; episode 1 was generated
\* and saved, then episode 2 was generated.
C19_Witness ==
    /\ Len(command.tokens) = 2
    /\ command.tokens[1].start = 2 /\ command.tokens[2].start = 1
    /\ Len(command.log) = 6
    /\ command.log[2] = Event("generate", 1)
    /\ command.log[3] = Event("save", 1)
    /\ command.log[5] = Event("generate", 2)

\* the file of an episode of the command's arc
FileOf(episode) == EpisodeFileName(command.arc, episode)

\* C20: without --force a requested episode whose file exists gets no
\* generation call and keeps its file as it was; with --force an episode
\* saved has the text generated in place of the text its file held.
C20_OverwriteOnlyWithForce ==
    (command.pc \in {"loop", "done"} /\ ~command.dry_run) =>
        \A n \in Requested :
            FileOf(n) \in DOMAIN command.stories_before =>
                IF command.force
                THEN n \in Episodes("save") =>
                        /\ n \in Episodes("generate")
                        /\ stories[FileOf(n)] \in
                              {EpisodeFileText(n, g) : g \in EpisodeContents}
                ELSE /\ n \notin Episodes("generate")
                     /\ stories[FileOf(n)] = command.stories_before[FileOf(n)]

\* a generate-plot command has run, or a generate-episode command has moved
PlotCommandRan == call.op = "generate_plot"

\* C21: a command run with --dry-run, generate-plot or generate-episode of
\* either program, makes no generation call and leaves the plot document and
\* every episode file as they were.
C21_DryRunChangesNothing ==
    [][/\ (call'.op = "generate_plot" /\ call'.dry_run) =>
             (call'.api_calls = 0 /\ plot_file' = plot_file /\ stories' = stories)
       /\ (command' # command /\ command'.dry_run) =>
             /\ \A i \in 1..Len(command'.log) : command'.log[i].event # "generate"
             /\ plot_file' = plot_file
             /\ stories' = stories]_vars

\* a dry run of generate-plot has read the setting and stopped there
C21_Witness ==
    PlotCommandRan /\ call.dry_run /\ call.outcome = "dry run"

\* the lookup of the previous episode has built its order
OrderBuilt == call.op = "get_previous_episode_content" /\ call.raised = "none"

\* the places of the order built that hold an episode of the arc
PlacesOf(arc) ==
    {i \in 1..Len(call.all_episodes) : call.all_episodes[i][1] = arc}

\* C22 as stated: the order built places every episode of "第十編" before
\* every episode of "第二編".
C22_DaiJuFirst ==
    OrderBuilt => \A i \in PlacesOf(ArcDaiJu), j \in PlacesOf(ArcDaiNi) : i < j

\* C22, amended: "二" (U+4E8C) compares below "十" (U+5341), so the order
\* built places every episode of "第二編" before every episode of "第十編".
C22_DaiNiFirst ==
    OrderBuilt => \A i \in PlacesOf(ArcDaiNi), j \in PlacesOf(ArcDaiJu) : i < j

\* a store that lists "第十編" first, both arcs with two numbered episodes
C22_Witness ==
    /\ OrderBuilt
    /\ Len(plot_file.data) = 2 /\ plot_file.data[1][1] = ArcDaiJu
    /\ Cardinality(PlacesOf(ArcDaiNi)) = 2
    /\ Cardinality(PlacesOf(ArcDaiJu)) = 2

\* the step is a generate-plot command run with --arc
RegeneratesArc == call'.op = "generate_plot" /\ call'.arc_given

\* the arc keeps in the document after the step the episode map it had
KeepsMap(a) ==
    /\ a \in DictKeys(plot_file'.data)
    /\ MapOf(plot_file'.data, a) = MapOf(plot_file.data, a)

\* C23: generate-plot --arc X changes only arc X: every other arc of the
\* plot document has after the command the episode map it had before,
\* whatever the state of the document was.
C23_OnlyArcChanged ==
    [][RegeneratesArc =>
          \A a \in DictKeys(plot_file.data) \ {call'.arc} : KeepsMap(a)]_vars

\* the episode map of the arc the command was started on
CommandMap == DictAt(plot_file.data, command.arc)

\* the command has found the arc in a plot document it could read
ArcLoaded ==
    /\ command.pc # "idle"
    /\ plot_file.state = "ok"
    /\ command.arc \in DictKeys(plot_file.data)

\* the keys of the episode map are exactly "1" .. "n"
DenseKeys(map) == DictKeys(map) = {ToStr(k) : k \in 1..Len(map)}

\* the parser accepts the number, written alone, for the limit of this map
Accepts(k, map) == ParseEpisodeNumbers(ToStr(k), MaxEpisode(map)).raised = "none"

\* C24: --episodes is validated against the number of entries of the arc's
\* episode map; when the keys of the arc are exactly 1..n the numbers the
\* parser accepts are the keys of the arc, and every episode of the list the
\* command goes through has a plot entry.
C24_AcceptedAreKeys ==
    ArcLoaded =>
        /\ (command.outcome = "invalid episodes") <=>
              \E i \in 1..Len(command.tokens) :
                 ~ValidToken(command.tokens[i], Len(CommandMap))
        /\ DenseKeys(CommandMap) =>
              /\ \A k \in 0..(MaxEps + 1) :
                    Accepts(k, CommandMap) <=> ToStr(k) \in DictKeys(CommandMap)
              /\ \A n \in Requested : ToStr(n) \in DictKeys(CommandMap)

\* C24 witness: an arc with the keys "2" and "1", --episodes 1-2: the command
\* goes through episodes 1 and 2.
C24_Witness ==
    /\ ArcLoaded
    /\ DictKeys(CommandMap) = {Key1, Key2}
    /\ command.pc = "loop"
    /\ command.episode_list = <<1, 2>>

\* the name of the episode file of the entry at a place of the order built
FileNameAt(i) == EpisodeFileName(call.all_episodes[i][1], call.all_episodes[i][2])

\* C25: the order get_previous_episode_content builds is the order of the
\* names of the episode files: of two entries the earlier one has the file
\* name that compares lower by code points, as sorted() lists the files.
C25_SortIsFileNameOrder ==
    OrderBuilt =>
        \A i, j \in 1..Len(call.all_episodes) :
            i < j => CodePointBefore(FileNameAt(i), FileNameAt(j))

\* C26: after save_episode(title, arc, episode, content) read_episode of the
\* same episode returns the content stripped, without the front matter, also
\* for a content with "---" lines; read_episode of an episode that has no
\* file returns "".
C26_RoundTrip ==
    /\ call.op = "save_episode" =>
          ReadEpisode(stories, call.arc, call.episode) = Strip(call.content)
    /\ (/\ call.op = "read_episode"
        /\ EpisodeFileName(call.arc, call.episode) \notin DOMAIN stories) =>
          call.result = <<>>

\* the generate-episode command of main.py is in its loop or has completed it
MainBatch ==
    /\ command.program = "main"
    /\ command.pc = "loop" \/ (command.pc = "done" /\ command.outcome = "completed")

\* the episodes the loop has gone through
Visited == Episodes("visit")

\* C27: in the loop of main.py every episode gone through has ended in
\* exactly one of saved, failed and skipped; success_count is the number of
\* episode files written in the run, error_count the number of failed
\* episodes; at completion every requested episode has been gone through
\* and success_count + error_count + the number skipped is the number
\* requested.
C27_CountsPartitionBatch ==
    MainBatch =>
        /\ Visited = Episodes("save") \cup Episodes("error") \cup Episodes("skip")
        /\ Episodes("save") \cap Episodes("error") = {}
        /\ Episodes("save") \cap Episodes("skip") = {}
        /\ Episodes("error") \cap Episodes("skip") = {}
        /\ \A kind \in {"save", "error", "skip"} :
              Cardinality(Places(kind)) = Cardinality(Episodes(kind))
        /\ command.success_count = Cardinality(Episodes("save"))
        /\ \A n \in Episodes("save") : FileOf(n) \in DOMAIN stories
        /\ \A f \in DOMAIN command.stories_before :
              f \notin {FileOf(n) : n \in Episodes("save")} =>
                 (f \in DOMAIN stories /\ stories[f] = command.stories_before[f])
        /\ DOMAIN stories =
              DOMAIN command.stories_before \cup {FileOf(n) : n \in Episodes("save")}
        /\ command.error_count = Cardinality(Episodes("error"))
        /\ command.pc = "done" =>
              /\ Visited = Requested
              /\ command.success_count + command.error_count
                    + Cardinality(Episodes("skip")) = Len(command.episode_list)

\* C27 witness: a batch of two episodes completed with one saved and the
\* other skipped.
C27_Witness ==
    /\ MainBatch
    /\ command.pc = "done"
    /\ Len(command.episode_list) = 2
    /\ command.success_count = 1
    /\ Cardinality(Episodes("skip")) = 1

\* C28: on every store and target the assembler and get_episode_plot agree
\* on whether the target exists: the assembler has raised its not-found
\* error exactly when get_episode_plot raises its own for the target, and
\* get_episode_plot has raised exactly when the assembler finds no current
\* plot, also for an empty plot text and for an absent arc.
C28_NotFoundAgreement ==
    /\ call.op = "generate_episode_with_context" =>
          ((call.raised = "ValueError")
             <=> (EpisodePlot(plot_file, call.arc, call.episode).raised = "ValueError"))
    /\ (call.op = "get_episode_plot" /\ plot_file.state = "ok") =>
          ((call.raised = "ValueError")
             <=> (CurrentPlot(plot_file.data, call.arc, call.episode) = <<>>))

\* the step is save_plot with merge on a plot document that is there
MergesOntoDocument ==
    call'.op = "save_plot" /\ call'.merge /\ plot_file.state # "missing"

\* C29: save_plot with merge loses no arc: every arc of the plot document
\* that the new data do not name is in the document after the call with
\* the episode map it had, also when the document could not be read.
C29_MergeLosesNoArc ==
    [][MergesOntoDocument =>
          \A a \in DictKeys(plot_file.data) \ DictKeys(call'.plot_data) :
             KeepsMap(a)]_vars

\* C30: when the read command has returned, on whatever path, no temporary
\* directory that prepare_content made is left and no server process runs;
\* after cleanup the manager holds neither a temporary directory nor a
\* server process.
C30_ReaderCleansUp ==
    reader.pc = "done" =>
        /\ reader.dirs = {}
        /\ reader.processes = {}
        /\ reader.cleaned => (reader.temp_dir = None /\ reader.server_process = None)

====
